---- MODULE Spec2Model ----
(***************************************************************************)
(* docker/get_version.py: resolve the product version recorded in          *)
(* superset-frontend/package.json and print it.                            *)
(*                                                                         *)
(* A file is a sequence of bytes and a text a sequence of characters; both *)
(* are sequences of one-element names.  Printable ASCII stands for itself. *)
(* The other names are                                                     *)
(*   QUOTE  the double quote          BSL  the backslash                   *)
(*   SP     the space                 LF   the line feed                   *)
(*   xC3 xA9              the two UTF-8 bytes of the character e-acute     *)
(*   xF0 x90 x80          bytes of the UTF-8 form of U+10000               *)
(*   xFF                  a byte that is not valid in UTF-8                *)
(*   E_ACUTE              the character U+00E9                             *)
(*   SUR                  the lone surrogate U+D800                        *)
(*   SURLO                the lone surrogate U+DC00                        *)
(*   U10000               the character U+10000                            *)
(*   U076E                the character U+076E                             *)
(* A path is the sequence of its components below the root directory.      *)
(***************************************************************************)
EXTENDS Integers, Sequences, FiniteSets

(***************************************************************************)
(* Bounds of the model.                                                    *)
(***************************************************************************)
MaxRuns == 2
MaxMembers == 2

(***************************************************************************)
(* Sequence helpers.                                                       *)
(***************************************************************************)
Front(s) == SubSeq(s, 1, Len(s) - 1)

Last(s) == s[Len(s)]

Range(s) == {s[i] : i \in 1..Len(s)}

\* The concatenation of the sequences of ss.
RECURSIVE Flatten(_)
Flatten(ss) ==
    IF Len(ss) = 0 THEN <<>>
    ELSE IF Len(ss) = 1 THEN ss[1]
    ELSE LET h == Len(ss) \div 2
         IN  Flatten(SubSeq(ss, 1, h)) \o Flatten(SubSeq(ss, h + 1, Len(ss)))

(***************************************************************************)
(* os.path on a POSIX system.                                              *)
(***************************************************************************)
pardir == ".."

\* os.path.dirname of an absolute path: drop the last component.
dirname(p) == IF p = <<>> THEN <<>> ELSE Front(p)

\* os.path.join of an absolute path with relative components.
join(p, rest) == p \o rest

\* os.path.normpath of an absolute path: ".." removes the component before
\* it, and at the root it is dropped.
RECURSIVE normpath_from(_, _)
normpath_from(done, todo) ==
    IF todo = <<>> THEN done
    ELSE IF Head(todo) = pardir
         THEN normpath_from(dirname(done), Tail(todo))
         ELSE normpath_from(Append(done, Head(todo)), Tail(todo))

normpath(p) == normpath_from(<<>>, p)

\* os.path.abspath of a path that is already absolute.
abspath(p) == normpath(p)

PackageDirName == "superset-frontend"

PackageFileName == "package.json"

\* The program's own directory, without the step to its parent.
BaseDirNoAscent(f) == abspath(dirname(f))

BaseDirOf(f) == abspath(join(dirname(f), <<pardir>>))

PackageJsonOf(base) == join(base, <<PackageDirName, PackageFileName>>)

(***************************************************************************)
(* The text codec of the file object and of standard output: UTF-8, strict.*)
(***************************************************************************)
NoResult == [ok |-> FALSE, val |-> <<>>]

\* The characters of the model that UTF-8 writes with more than one byte.
MultiByte ==
    {[char |-> "E_ACUTE", bytes |-> <<"xC3", "xA9">>],
     [char |-> "U076E", bytes |-> <<"xDD", "xAE">>],
     [char |-> "U10000", bytes |-> <<"xF0", "x90", "x80", "x80">>]}

LeadBytes == {"xC3", "xDD", "xF0"}

ContinuationBytes == {"xA9", "xAE", "x90", "x80"}

InvalidBytes == {"xFF"}

\* The multi-byte sequence m lies at position i of bytes.
LiesAt(bytes, i, m) ==
    /\ i + Len(m.bytes) - 1 <= Len(bytes)
    /\ SubSeq(bytes, i, i + Len(m.bytes) - 1) = m.bytes

\* bytes.decode("utf-8"): the text, or a failure (UnicodeDecodeError) when a
\* byte is invalid, a lead byte lacks its continuation bytes, or a
\* continuation byte follows no lead byte.
utf8_decode(bytes) ==
    LET wellFormed(i) ==
            LET b == bytes[i]
            IN  IF b \in InvalidBytes THEN FALSE
                ELSE IF b \in LeadBytes
                THEN \E m \in MultiByte : LiesAt(bytes, i, m)
                ELSE IF b \in ContinuationBytes
                THEN \E m \in MultiByte : \E j \in 1..(i - 1) :
                        LiesAt(bytes, j, m) /\ i <= j + Len(m.bytes) - 1
                ELSE TRUE
        decoded(i) ==
            LET b == bytes[i]
            IN  IF b \in LeadBytes
                THEN <<(CHOOSE m \in MultiByte : LiesAt(bytes, i, m)).char>>
                ELSE IF b \in ContinuationBytes THEN <<>>
                ELSE <<b>>
    IN  IF \A i \in 1..Len(bytes) : wellFormed(i)
        THEN [ok |-> TRUE, val |-> Flatten([i \in 1..Len(bytes) |-> decoded(i)])]
        ELSE NoResult

\* str.encode("utf-8"): the bytes, or a failure (UnicodeEncodeError) when the
\* text holds a lone surrogate.
utf8_encode(text) ==
    LET encoded(c) ==
            IF \E m \in MultiByte : m.char = c
            THEN (CHOOSE m \in MultiByte : m.char = c).bytes
            ELSE <<c>>
    IN  IF \E i \in 1..Len(text) : text[i] \in {"SUR", "SURLO"}
        THEN NoResult
        ELSE [ok |-> TRUE, val |-> Flatten([i \in 1..Len(text) |-> encoded(text[i])])]

(***************************************************************************)
(* Python values as json.load builds them.  A dict keeps its keys in       *)
(* insertion order.                                                        *)
(***************************************************************************)
PyStrVal(chars) == [t |-> "str", s |-> chars]

PyInt(n) == [t |-> "int", n |-> n]

PyBool(b) == [t |-> "bool", b |-> b]

PyNone == [t |-> "None"]

PyList(items) == [t |-> "list", items |-> items]

PyDict(items) == [t |-> "dict", items |-> items]

\* dict(pairs): a repeated key keeps its first position and takes the last value.
RECURSIVE dict_of(_, _)
dict_of(done, pairs) ==
    IF pairs = <<>> THEN PyDict(done)
    ELSE LET p == Head(pairs)
             hit == {i \in 1..Len(done) : done[i].key = p.key}
         IN  IF hit = {}
             THEN dict_of(Append(done, p), Tail(pairs))
             ELSE dict_of([i \in 1..Len(done) |->
                              IF i \in hit THEN p ELSE done[i]], Tail(pairs))

(***************************************************************************)
(* json.decoder and json.scanner.  Positions are 1-based: idx is the       *)
(* position of the next character to read.  A failed scan is the           *)
(* JSONDecodeError of the library.                                         *)
(***************************************************************************)
ScanFail == [ok |-> FALSE, val |-> PyNone, end |-> 0]

ScanOk(v, e) == [ok |-> TRUE, val |-> v, end |-> e]

\* s[idx:idx + 1], with EOF for the empty slice.
At(s, idx) == IF idx >= 1 /\ idx <= Len(s) THEN s[idx] ELSE "EOF"

WHITESPACE == {"SP", "LF", "TAB", "CR"}

\* WHITESPACE.match(s, idx).end()
RECURSIVE skip_ws(_, _)
skip_ws(s, idx) == IF At(s, idx) \in WHITESPACE THEN skip_ws(s, idx + 1) ELSE idx

HexDigits == {"0", "1", "2", "3", "4", "5", "6", "7", "8", "9",
              "a", "b", "c", "d", "e", "f"}

\* chr(int(esc, 16)) for the escapes the manifests of the model can hold.
CodePoint(esc) ==
    CASE esc = <<"d", "8", "0", "0">> -> "SUR"
      [] esc = <<"d", "c", "0", "0">> -> "SURLO"
      [] esc = <<"0", "0", "7", "6">> -> "v"
      [] esc = <<"0", "0", "6", "e">> -> "n"
      [] esc = <<"0", "0", "7", "e">> -> "~"
      [] esc = <<"0", "7", "6", "e">> -> "U076E"
      [] esc = <<"0", "0", "e", "9">> -> "E_ACUTE"
      [] OTHER -> "U_OTHER"

\* _decode_uXXXX(s, pos), pos being the position of the "u".
decode_uXXXX(s, pos) ==
    LET esc == SubSeq(s, pos + 1, pos + 4)
    IN  IF pos + 4 <= Len(s) /\ Range(esc) \subseteq HexDigits
        THEN [ok |-> TRUE, val |-> CodePoint(esc)]
        ELSE [ok |-> FALSE, val |-> "EOF"]

\* The BACKSLASH table of json.decoder.
BACKSLASH(esc) ==
    CASE esc = "QUOTE" -> "QUOTE"
      [] esc = "BSL" -> "BSL"
      [] esc = "/" -> "/"
      [] esc = "n" -> "LF"
      [] esc = "t" -> "TAB"
      [] esc = "r" -> "CR"
      [] esc = "b" -> "BS"
      [] esc = "f" -> "FF"
      [] OTHER -> "EOF"

ControlChars == {"LF", "TAB", "CR", "BS", "FF"}

\* py_scanstring(s, end, strict=True): end is the position after the
\* opening quote; acc holds the characters decoded so far.
RECURSIVE scanstring_from(_, _, _)
scanstring_from(s, end, acc) ==
    LET c == At(s, end)
    IN  IF c = "EOF" THEN ScanFail                     \* Unterminated string
        ELSE IF c = "QUOTE" THEN ScanOk(PyStrVal(acc), end + 1)
        ELSE IF c \in ControlChars THEN ScanFail       \* Invalid control character
        ELSE IF c # "BSL" THEN scanstring_from(s, end + 1, Append(acc, c))
        ELSE LET esc == At(s, end + 1)
             IN  IF esc = "EOF" THEN ScanFail          \* Unterminated string
                 ELSE IF esc # "u"
                 THEN IF BACKSLASH(esc) = "EOF" THEN ScanFail   \* Invalid \escape
                      ELSE scanstring_from(s, end + 2, Append(acc, BACKSLASH(esc)))
                 ELSE LET uni == decode_uXXXX(s, end + 1)
                          nxt == end + 6
                      IN  IF ~uni.ok THEN ScanFail     \* Invalid \uXXXX escape
                          ELSE IF uni.val = "SUR" /\ At(s, nxt) = "BSL"
                                  /\ At(s, nxt + 1) = "u"
                          THEN LET uni2 == decode_uXXXX(s, nxt + 1)
                               IN  IF ~uni2.ok THEN ScanFail
                                   ELSE IF uni2.val = "SURLO"
                                   THEN scanstring_from(s, nxt + 6, Append(acc, "U10000"))
                                   ELSE scanstring_from(s, nxt, Append(acc, uni.val))
                          ELSE scanstring_from(s, nxt, Append(acc, uni.val))

scanstring(s, end) == scanstring_from(s, end, <<>>)

Digits == {"0", "1", "2", "3", "4", "5", "6", "7", "8", "9"}

DigitVal(c) ==
    CASE c = "0" -> 0 [] c = "1" -> 1 [] c = "2" -> 2 [] c = "3" -> 3
      [] c = "4" -> 4 [] c = "5" -> 5 [] c = "6" -> 6 [] c = "7" -> 7
      [] c = "8" -> 8 [] c = "9" -> 9

\* The end of the longest run of digits that starts at idx.
RECURSIVE digits_end(_, _)
digits_end(s, idx) == IF At(s, idx) \in Digits THEN digits_end(s, idx + 1) ELSE idx

RECURSIVE int_of(_, _)
int_of(digits, acc) ==
    IF digits = <<>> THEN acc
    ELSE int_of(Tail(digits), 10 * acc + DigitVal(Head(digits)))

\* NUMBER_RE.match(s, idx) for integers: (-?(?:0|[1-9][0-9]*)).  The manifests
\* of the model hold no fraction and no exponent outside strings.
match_number(s, idx) ==
    LET neg == At(s, idx) = "-"
        d0 == IF neg THEN idx + 1 ELSE idx
        e == IF At(s, d0) = "0" THEN d0 + 1 ELSE digits_end(s, d0)
        n == int_of(SubSeq(s, d0, e - 1), 0)
    IN  IF At(s, d0) \notin Digits THEN ScanFail
        ELSE ScanOk(PyInt(IF neg THEN 0 - n ELSE n), e)

RECURSIVE scan_once(_, _)
RECURSIVE object_members(_, _, _)
RECURSIVE array_items(_, _, _)

\* JSONObject: end is the position after the opening brace.
JSONObject(s, end) ==
    LET e == skip_ws(s, end)
    IN  IF At(s, e) = "}" THEN ScanOk(PyDict(<<>>), e + 1)
        ELSE IF At(s, e) # "QUOTE" THEN ScanFail   \* Expecting property name
        ELSE object_members(s, e + 1, <<>>)

\* The loop of JSONObject: end is the position after the quote that opens a key.
object_members(s, end, pairs) ==
    LET k == scanstring(s, end)
        colon == skip_ws(s, k.end)
        v == scan_once(s, skip_ws(s, colon + 1))
        sep == skip_ws(s, v.end)
        newpairs == Append(pairs, [key |-> k.val.s, value |-> v.val])
        nextkey == skip_ws(s, sep + 1)
    IN  IF ~k.ok THEN ScanFail
        ELSE IF At(s, colon) # ":" THEN ScanFail   \* Expecting ':' delimiter
        ELSE IF ~v.ok THEN ScanFail                \* Expecting value
        ELSE IF At(s, sep) = "}" THEN ScanOk(dict_of(<<>>, newpairs), sep + 1)
        ELSE IF At(s, sep) # "," THEN ScanFail     \* Expecting ',' delimiter
        ELSE IF At(s, nextkey) # "QUOTE" THEN ScanFail   \* Expecting property name
        ELSE object_members(s, nextkey + 1, newpairs)

\* JSONArray: end is the position after the opening bracket.
JSONArray(s, end) ==
    LET e == skip_ws(s, end)
    IN  IF At(s, e) = "]" THEN ScanOk(PyList(<<>>), e + 1)
        ELSE array_items(s, e, <<>>)

\* The loop of JSONArray.
array_items(s, end, values) ==
    LET v == scan_once(s, end)
        sep == skip_ws(s, v.end)
        newvalues == Append(values, v.val)
    IN  IF ~v.ok THEN ScanFail                     \* Expecting value
        ELSE IF At(s, sep) = "]" THEN ScanOk(PyList(newvalues), sep + 1)
        ELSE IF At(s, sep) # "," THEN ScanFail     \* Expecting ',' delimiter
        ELSE array_items(s, skip_ws(s, sep + 1), newvalues)

\* _scan_once of json.scanner.
scan_once(s, idx) ==
    LET nextchar == At(s, idx)
    IN  IF nextchar = "EOF" THEN ScanFail
        ELSE IF nextchar = "QUOTE" THEN scanstring(s, idx + 1)
        ELSE IF nextchar = "{" THEN JSONObject(s, idx + 1)
        ELSE IF nextchar = "[" THEN JSONArray(s, idx + 1)
        ELSE IF nextchar = "n" /\ idx + 3 <= Len(s)
                /\ SubSeq(s, idx, idx + 3) = <<"n", "u", "l", "l">>
        THEN ScanOk(PyNone, idx + 4)
        ELSE IF nextchar = "t" /\ idx + 3 <= Len(s)
                /\ SubSeq(s, idx, idx + 3) = <<"t", "r", "u", "e">>
        THEN ScanOk(PyBool(TRUE), idx + 4)
        ELSE IF nextchar = "f" /\ idx + 4 <= Len(s)
                /\ SubSeq(s, idx, idx + 4) = <<"f", "a", "l", "s", "e">>
        THEN ScanOk(PyBool(FALSE), idx + 5)
        ELSE match_number(s, idx)

\* A decode that stops at the end of the first value.
loads_ignores_rest(s) ==
    LET r == scan_once(s, skip_ws(s, 1))
    IN  IF ~r.ok THEN ScanFail ELSE r

\* JSONDecoder.decode: one value, then nothing but whitespace.
loads(s) ==
    LET r == scan_once(s, skip_ws(s, 1))
    IN  IF ~r.ok THEN ScanFail                     \* Expecting value
        ELSE IF skip_ws(s, r.end) # Len(s) + 1 THEN ScanFail   \* Extra data
        ELSE r

(***************************************************************************)
(* str() and repr() of the values json.load builds.                        *)
(***************************************************************************)
\* The escape repr() writes for one character of a str quoted with q.
repr_char(c, q) ==
    CASE c = "BSL" -> <<"BSL", "BSL">>
      [] c = "LF" -> <<"BSL", "n">>
      [] c = "TAB" -> <<"BSL", "t">>
      [] c = "CR" -> <<"BSL", "r">>
      [] c = "BS" -> <<"BSL", "x", "0", "8">>
      [] c = "FF" -> <<"BSL", "x", "0", "c">>
      [] c = "SUR" -> <<"BSL", "u", "d", "8", "0", "0">>
      [] c = "SURLO" -> <<"BSL", "u", "d", "c", "0", "0">>
      [] c = q -> <<"BSL", q>>
      [] OTHER -> <<c>>

\* repr() of a str: single quotes, unless it holds a single quote and no
\* double quote.
repr_str(chars) ==
    LET q == IF "'" \in Range(chars) /\ "QUOTE" \notin Range(chars)
             THEN "QUOTE" ELSE "'"
    IN  <<q>> \o Flatten([i \in 1..Len(chars) |-> repr_char(chars[i], q)]) \o <<q>>

DigitChar(d) ==
    CASE d = 0 -> "0" [] d = 1 -> "1" [] d = 2 -> "2" [] d = 3 -> "3"
      [] d = 4 -> "4" [] d = 5 -> "5" [] d = 6 -> "6" [] d = 7 -> "7"
      [] d = 8 -> "8" [] d = 9 -> "9"

RECURSIVE digits_of(_)
digits_of(n) ==
    IF n < 10 THEN <<DigitChar(n)>>
    ELSE Append(digits_of(n \div 10), DigitChar(n % 10))

\* str() of an int.
str_int(n) == IF n < 0 THEN <<"-">> \o digits_of(0 - n) ELSE digits_of(n)

\* ", ".join(parts)
join_comma(parts) ==
    Flatten([i \in 1..Len(parts) |->
                IF i = 1 THEN parts[i] ELSE <<",", "SP">> \o parts[i]])

RECURSIVE repr(_)
repr(v) ==
    CASE v.t = "str" -> repr_str(v.s)
      [] v.t = "int" -> str_int(v.n)
      [] v.t = "bool" -> IF v.b THEN <<"T", "r", "u", "e">>
                         ELSE <<"F", "a", "l", "s", "e">>
      [] v.t = "None" -> <<"N", "o", "n", "e">>
      [] v.t = "list" ->
            <<"[">> \o join_comma([i \in 1..Len(v.items) |-> repr(v.items[i])])
                    \o <<"]">>
      [] v.t = "dict" ->
            <<"{">> \o join_comma([i \in 1..Len(v.items) |->
                          repr_str(v.items[i].key) \o <<":", "SP">>
                              \o repr(v.items[i].value)])
                    \o <<"}">>

\* str(v): a str is itself, every other value is its repr.
str_as_repr(v) == repr(v)

str(v) == IF v.t = "str" THEN v.s ELSE repr(v)

(***************************************************************************)
(* Exceptions, by the name of their class.                                 *)
(***************************************************************************)
NoException == "none"

\* The builtin base class each exception of the program derives from.
BaseClass(e) ==
    CASE e \in {"FileNotFoundError", "PermissionError", "IsADirectoryError",
                "FileExistsError", "UnsupportedOperation"} -> "OSError"
      [] e \in {"JSONDecodeError", "UnicodeDecodeError", "UnicodeEncodeError"}
            -> "ValueError"
      [] e = "KeyError" -> "LookupError"
      [] OTHER -> e

(***************************************************************************)
(* obj["version"]                                                          *)
(***************************************************************************)
VersionKey == <<"v", "e", "r", "s", "i", "o", "n">>

\* obj.get(key, "0.0.0") in the place of obj[key].
getitem_default(obj, key) ==
    IF obj.t = "dict"
    THEN LET hit == {i \in 1..Len(obj.items) : obj.items[i].key = key}
         IN  IF hit = {}
             THEN [exc |-> NoException,
                   val |-> PyStrVal(<<"0", ".", "0", ".", "0">>)]
             ELSE [exc |-> NoException,
                   val |-> obj.items[CHOOSE i \in hit : TRUE].value]
    ELSE [exc |-> "TypeError", val |-> PyNone]

\* obj[key] followed by a check that the value is a str.
getitem_typed(obj, key) ==
    IF obj.t = "dict"
    THEN LET hit == {i \in 1..Len(obj.items) : obj.items[i].key = key}
             v == obj.items[CHOOSE i \in hit : TRUE].value
         IN  IF hit = {} THEN [exc |-> "KeyError", val |-> PyNone]
             ELSE IF v.t # "str" THEN [exc |-> "TypeError", val |-> PyNone]
             ELSE [exc |-> NoException, val |-> v]
    ELSE [exc |-> "TypeError", val |-> PyNone]

\* obj[key]: the value and no exception, or the exception.
getitem(obj, key) ==
    IF obj.t = "dict"
    THEN LET hit == {i \in 1..Len(obj.items) : obj.items[i].key = key}
         IN  IF hit = {} THEN [exc |-> "KeyError", val |-> PyNone]
             ELSE [exc |-> NoException,
                   val |-> obj.items[CHOOSE i \in hit : TRUE].value]
    ELSE [exc |-> "TypeError", val |-> PyNone]

(***************************************************************************)
(* The file system and the builtin open().                                 *)
(***************************************************************************)
Absent == [kind |-> "absent", readable |-> FALSE, data |-> <<>>]

Directory == [kind |-> "dir", readable |-> TRUE, data |-> <<>>]

RegularFile(bytes) == [kind |-> "file", readable |-> TRUE, data |-> bytes]

Unreadable(bytes) == [kind |-> "file", readable |-> FALSE, data |-> bytes]

Lookup(fsys, path) == IF path \in DOMAIN fsys THEN fsys[path] ELSE Absent

NoHandle == [state |-> "none", path |-> <<>>, mode |-> "none"]

\* The mode argument of open() in the program.
MODE_W == "w"

MODE == "r"

\* An open() that takes a missing file for an empty one.
open_lenient(fsys, path, mode) ==
    LET entry == Lookup(fsys, path)
    IN  IF entry.kind = "dir"
        THEN [exc |-> "IsADirectoryError", fs |-> fsys, handle |-> NoHandle]
        ELSE IF entry.kind = "file" /\ ~entry.readable
        THEN [exc |-> "PermissionError", fs |-> fsys, handle |-> NoHandle]
        ELSE [exc |-> NoException, fs |-> fsys,
              handle |-> [state |-> "open", path |-> path, mode |-> mode]]

\* open(path, mode): the exception raised, the file system afterwards and
\* the file object.  Mode "r" reads an existing file; mode "w" creates the
\* file or truncates it.
open(fsys, path, mode) ==
    LET entry == Lookup(fsys, path)
        failed(e) == [exc |-> e, fs |-> fsys, handle |-> NoHandle]
        handle == [state |-> "open", path |-> path, mode |-> mode]
    IN  IF entry.kind = "dir" THEN failed("IsADirectoryError")
        ELSE IF mode = "r"
        THEN IF entry.kind = "absent" THEN failed("FileNotFoundError")
             ELSE IF ~entry.readable THEN failed("PermissionError")
             ELSE [exc |-> NoException, fs |-> fsys, handle |-> handle]
        ELSE IF entry.kind = "file" /\ ~entry.readable THEN failed("PermissionError")
        ELSE IF path \notin DOMAIN fsys THEN failed("FileNotFoundError")
        ELSE [exc |-> NoException,
              fs |-> [fsys EXCEPT ![path] = RegularFile(<<>>)],
              handle |-> handle]

\* json.load(fp): fp.read() decodes the whole file, json.loads parses it.
load(fsys, handle) ==
    LET text == utf8_decode(Lookup(fsys, handle.path).data)
        r == loads(text.val)
    IN  IF handle.mode # "r" THEN [exc |-> "UnsupportedOperation", val |-> PyNone]
        ELSE IF ~text.ok THEN [exc |-> "UnicodeDecodeError", val |-> PyNone]
        ELSE IF ~r.ok THEN [exc |-> "JSONDecodeError", val |-> PyNone]
        ELSE [exc |-> NoException, val |-> r.val]

\* The file system after fp.close(): closing a file leaves it in place.
close_deletes(fsys, handle) == [fsys EXCEPT ![handle.path] = Absent]

close(fsys, handle) == fsys

\* The file object after the __exit__ of the with statement, which runs when
\* the block ends and when the exception e leaves it: the file is closed.
exit_only_on_success(handle, e) ==
    IF e = NoException THEN [handle EXCEPT !.state = "closed"] ELSE handle

exit_with(handle, e) == [handle EXCEPT !.state = "closed"]

\* print(x) on a standard output that holds the bytes out: str(x) and the
\* newline are encoded and written.
builtin_print(out, x) ==
    LET line == utf8_encode(str(x))
    IN  IF line.ok THEN [exc |-> NoException, out |-> out \o line.val \o <<"LF">>]
        ELSE [exc |-> "UnicodeEncodeError", out |-> out]

(***************************************************************************)
(* The manifests the model reads: texts written as a package.json is, and  *)
(* damaged copies of them.                                                 *)
(***************************************************************************)
Q(chars) == <<"QUOTE">> \o chars \o <<"QUOTE">>

Text410 == <<"4", ".", "1", ".", "0">>

TextAlpha == <<"1", ".", "0", ".", "0", "-", "a", "l", "p", "h", "a", "+",
               "b", "u", "i", "l", "d", ".", "7">>

\* The texts of string values: plain, padded with a space and an escaped
\* line feed, empty, with a two-byte character, with an escaped quote, with
\* an escaped surrogate pair, and with one escaped lone surrogate.
EncodableStringTexts ==
    {Q(Text410), Q(TextAlpha), Q(<<"SP", "4", ".", "1", "BSL", "n">>), Q(<<>>),
     Q(<<"1", "xC3", "xA9">>), Q(<<"BSL", "QUOTE", "1">>),
     Q(<<"BSL", "u", "d", "8", "0", "0", "BSL", "u", "d", "c", "0", "0">>)}

SurrogateStringTexts == {Q(<<"2", "BSL", "u", "d", "8", "0", "0">>)}

StringTexts == EncodableStringTexts \cup SurrogateStringTexts

\* The texts of the values that are not strings.
OtherTexts ==
    {<<"7">>, <<"-", "0">>, <<"4", "2">>, <<"t", "r", "u", "e">>,
     <<"f", "a", "l", "s", "e">>, <<"n", "u", "l", "l">>,
     <<"[", "]">>, <<"{", "}">>,
     <<"[">> \o Q(<<"a", "BSL", "n", "BSL", "u", "d", "8", "0", "0">>)
             \o <<",", "SP", "n", "u", "l", "l", "]">>,
     <<"{">> \o Q(<<"k">>) \o <<":", "SP", "1", "}">>}

ValueTexts == StringTexts \cup OtherTexts

VersionKeyText == Q(VersionKey)

\* The key "version" written with an escape for its first letter.
EscapedVersionKeyText == Q(<<"BSL", "u", "0", "0", "7", "6">> \o Tail(VersionKey))

OtherKeyTexts == {Q(<<"n", "a", "m", "e">>), Q(<<"V">> \o Tail(VersionKey))}

MemberText(k, v) == k \o <<":", "SP">> \o v

\* The members of the manifests with one member.
MemberTexts ==
    {MemberText(VersionKeyText, v) : v \in ValueTexts}
      \cup {MemberText(EscapedVersionKeyText, Q(<<"3">>))}
      \cup {MemberText(k, v) : k \in OtherKeyTexts, v \in {Q(<<"x">>), <<"7">>}}

\* The members of the manifests with several members.
SharedMemberTexts ==
    {MemberText(VersionKeyText, v) :
        v \in {Q(Text410), Q(TextAlpha), <<"7">>, <<"n", "u", "l", "l">>}
                 \cup SurrogateStringTexts}
      \cup {MemberText(EscapedVersionKeyText, Q(<<"3">>))}
      \cup {MemberText(k, Q(<<"x">>)) : k \in OtherKeyTexts}

\* The members of the manifests that are also damaged.
CoreMemberTexts ==
    {MemberText(VersionKeyText, Q(Text410)),
     MemberText(EscapedVersionKeyText, <<"7">>),
     MemberText(Q(<<"n", "a", "m", "e">>), Q(<<"x">>))}

\* The text of an object with the given members, ended by a line feed.
ObjectText(members) == <<"{">> \o join_comma(members) \o <<"}", "LF">>

MemberLists(from) == UNION {[1..n -> from] : n \in 0..MaxMembers}

ObjectTexts ==
    {ObjectText(<<m>>) : m \in MemberTexts}
      \cup {ObjectText(m) : m \in MemberLists(SharedMemberTexts)}

CoreObjectTexts == {ObjectText(m) : m \in MemberLists(CoreMemberTexts)}

\* Manifests whose top-level value is not an object.
TopLevelTexts == {v \o <<"LF">> : v \in ValueTexts}

Prefixes(d) == {SubSeq(d, 1, n) : n \in 0..(Len(d) - 1)}

DropOne(d) == {SubSeq(d, 1, i - 1) \o SubSeq(d, i + 1, Len(d)) : i \in 1..Len(d)}

\* Truncated manifests, manifests with one character missing, manifests with
\* text after the value, and manifests that are not UTF-8.
DamagedTexts ==
    UNION {Prefixes(d) \cup DropOne(d) : d \in CoreObjectTexts \cup TopLevelTexts}
      \cup {d \o <<"{">> : d \in CoreObjectTexts}
      \cup {<<"xFF">>, ObjectText(<<MemberText(VersionKeyText, Q(<<"1", "xC3">>))>>)}

Contents == ObjectTexts \cup TopLevelTexts \cup DamagedTexts

\* What can be at the path of the manifest.
Entries ==
    {Absent, Directory} \cup {RegularFile(d) : d \in Contents}
      \cup {Unreadable(ObjectText(<<MemberText(VersionKeyText, Q(Text410))>>))}

\* The manifest that lies at other places of the tree.
DecoyText == ObjectText(<<MemberText(VersionKeyText, Q(<<"9", ".", "9">>))>>)

\* The places the program can be installed at.
Anchors ==
    {<<"app", "docker", "get_version.py">>, <<"docker", "get_version.py">>,
     <<"get_version.py">>}

MainAnchor == <<"app", "docker", "get_version.py">>

\* The manifest's place for an installation at f: the directory above the
\* program's directory (the root is its own parent), then the fixed names.
ManifestPath(f) ==
    LET own == SubSeq(f, 1, Len(f) - 1)
        up == IF own = <<>> THEN <<>> ELSE SubSeq(own, 1, Len(own) - 1)
    IN  up \o <<"superset-frontend", "package.json">>

\* Other places a manifest could lie at.
DecoyPaths(f) ==
    LET own == SubSeq(f, 1, Len(f) - 1)
        up == IF own = <<>> THEN <<>> ELSE SubSeq(own, 1, Len(own) - 1)
        up2 == IF up = <<>> THEN <<>> ELSE SubSeq(up, 1, Len(up) - 1)
    IN  {own \o <<"package.json">>, up \o <<"package.json">>,
         own \o <<"superset-frontend", "package.json">>,
         up2 \o <<"superset-frontend", "package.json">>,
         up \o <<"superset-frontend", "package.json", "package.json">>}
          \ {ManifestPath(f)}

AllPaths == UNION {DecoyPaths(f) \cup {ManifestPath(f)} : f \in Anchors}

FileSystem(f, entry, decoys) ==
    [p \in AllPaths |->
        IF p = ManifestPath(f) THEN entry
        ELSE IF decoys /\ p \in DecoyPaths(f) THEN RegularFile(DecoyText)
        ELSE Absent]

(***************************************************************************)
(* The program.                                                            *)
(***************************************************************************)
VARIABLES
    __file__,        \* the path of the program
    fs,              \* the file system
    pc,              \* the statement the interpreter is at
    BASE_DIR,        \* line 6
    PACKAGE_JSON,    \* line 7
    package_file,    \* the file object of the with statement
    loaded,          \* the value json.load returned
    version_string,  \* line 9
    exc,             \* the exception that is propagating
    stdout,          \* the bytes written to standard output
    status,          \* the exit status of the process
    opened,          \* the calls of open() of this invocation
    runs             \* the invocations that have ended

vars == <<__file__, fs, pc, BASE_DIR, PACKAGE_JSON, package_file, loaded,
          version_string, exc, stdout, status, opened, runs>>

Unset == [t |-> "unset"]

UnsetPath == <<"unset">>

Running == -1

\* The state of a process that starts to run the program.
Fresh ==
    /\ pc = "paths"
    /\ BASE_DIR = UnsetPath
    /\ PACKAGE_JSON = UnsetPath
    /\ package_file = NoHandle
    /\ loaded = Unset
    /\ version_string = Unset
    /\ exc = NoException
    /\ stdout = <<>>
    /\ status = Running
    /\ opened = <<>>

Init ==
    /\ \/ /\ __file__ = MainAnchor
          /\ \E entry \in Entries : fs = FileSystem(__file__, entry, FALSE)
       \/ /\ __file__ \in Anchors
          /\ \E decoys \in BOOLEAN :
             \E entry \in {Absent, Directory, RegularFile(<<>>)}
                            \cup {RegularFile(d) : d \in CoreObjectTexts} :
                fs = FileSystem(__file__, entry, decoys)
    /\ Fresh
    /\ runs = <<>>

\* Lines 6 and 7.
Paths ==
    /\ pc = "paths"
    /\ BASE_DIR' = BaseDirOf(__file__)
    /\ PACKAGE_JSON' = PackageJsonOf(BASE_DIR')
    /\ pc' = "open"
    /\ UNCHANGED <<__file__, fs, package_file, loaded, version_string, exc,
                   stdout, status, opened, runs>>

\* Line 8: open(PACKAGE_JSON, "r") and the entry of the with block.  An
\* exception of open() is raised outside the block.
Open ==
    /\ pc = "open"
    /\ LET r == open(fs, PACKAGE_JSON, MODE)
       IN  /\ fs' = r.fs
           /\ package_file' = r.handle
           /\ exc' = r.exc
           /\ pc' = IF r.exc = NoException THEN "load" ELSE "exit"
    /\ opened' = Append(opened, [path |-> PACKAGE_JSON, mode |-> MODE])
    /\ UNCHANGED <<__file__, BASE_DIR, PACKAGE_JSON, loaded, version_string,
                   stdout, status, runs>>

\* Line 9: json.load(package_file).
Load ==
    /\ pc = "load"
    /\ LET r == load(fs, package_file)
       IN  /\ loaded' = IF r.exc = NoException THEN r.val ELSE loaded
           /\ exc' = r.exc
           /\ pc' = IF r.exc = NoException THEN "subscript" ELSE "leave"
    /\ UNCHANGED <<__file__, fs, BASE_DIR, PACKAGE_JSON, package_file,
                   version_string, stdout, status, opened, runs>>

\* Line 9: version_string = ...["version"].
Subscript ==
    /\ pc = "subscript"
    /\ LET r == getitem(loaded, VersionKey)
       IN  /\ version_string' = IF r.exc = NoException THEN r.val
                                ELSE version_string
           /\ exc' = r.exc
    /\ pc' = "leave"
    /\ UNCHANGED <<__file__, fs, BASE_DIR, PACKAGE_JSON, package_file, loaded,
                   stdout, status, opened, runs>>

\* The end of the with block, reached by the last statement or by an
\* exception: the file object is closed, an exception propagates.
Leave ==
    /\ pc = "leave"
    /\ fs' = close(fs, package_file)
    /\ package_file' = exit_with(package_file, exc)
    /\ pc' = IF exc = NoException THEN "print" ELSE "exit"
    /\ UNCHANGED <<__file__, BASE_DIR, PACKAGE_JSON, loaded, version_string,
                   exc, stdout, status, opened, runs>>

\* Line 11: print(version_string).
PrintVersion ==
    /\ pc = "print"
    /\ LET r == builtin_print(stdout, version_string)
       IN  /\ stdout' = r.out
           /\ exc' = r.exc
    /\ pc' = "exit"
    /\ UNCHANGED <<__file__, fs, BASE_DIR, PACKAGE_JSON, package_file, loaded,
                   version_string, status, opened, runs>>

\* An interpreter that swallows the exception.
ExitStatusZero(e) == 0

\* The exit status of the interpreter: 1 after an unhandled exception.
ExitStatus(e) == IF e = NoException THEN 0 ELSE 1

\* The interpreter ends the process.
Exit ==
    /\ pc = "exit"
    /\ status' = ExitStatus(exc)
    /\ pc' = "done"
    /\ runs' = Append(runs, [stdout |-> stdout, status |-> status', exc |-> exc])
    /\ UNCHANGED <<__file__, fs, BASE_DIR, PACKAGE_JSON, package_file, loaded,
                   version_string, exc, stdout, opened>>

\* The program is run again, in a new process, on the file system the
\* earlier invocations left.
Invoke ==
    /\ pc = "done"
    /\ Len(runs) < MaxRuns
    /\ pc' = "paths"
    /\ BASE_DIR' = UnsetPath
    /\ PACKAGE_JSON' = UnsetPath
    /\ package_file' = NoHandle
    /\ loaded' = Unset
    /\ version_string' = Unset
    /\ exc' = NoException
    /\ stdout' = <<>>
    /\ status' = Running
    /\ opened' = <<>>
    /\ UNCHANGED <<__file__, fs, runs>>

Next == Paths \/ Open \/ Load \/ Subscript \/ Leave \/ PrintVersion \/ Exit \/ Invoke

Spec == Init /\ [][Next]_vars

TypeOK ==
    /\ pc \in {"paths", "open", "load", "subscript", "leave", "print", "exit", "done"}
    /\ status \in {Running, 0, 1}
    /\ package_file.state \in {"none", "open", "closed"}
    /\ Len(runs) <= MaxRuns

(***************************************************************************)
(* What the claims speak of.                                               *)
(***************************************************************************)
\* What lies at the place the specification gives for the manifest.
TheManifest == Lookup(fs, ManifestPath(__file__))

Readable == TheManifest.kind = "file" /\ TheManifest.readable

\* What a reader of the manifest finds: whether it is text, whether the text
\* is in the structured format, whether the value is a mapping, whether the
\* mapping has the key "version", and the value of that key.
Reading ==
    LET text == utf8_decode(TheManifest.data)
        value == loads(text.val)
        hits == {i \in 1..Len(value.val.items) :
                    value.val.items[i].key = <<"v", "e", "r", "s", "i", "o", "n">>}
        parses == Readable /\ text.ok /\ value.ok
        mapping == parses /\ value.val.t = "dict"
        found == mapping /\ hits # {}
    IN  [decodes |-> Readable /\ text.ok,
         parses |-> parses,
         mapping |-> mapping,
         found |-> found,
         version |-> IF found THEN value.val.items[CHOOSE i \in hits : TRUE].value
                     ELSE [t |-> "unset"]]

Ended == pc = "done"

HoldsSurrogate(chars) == \E i \in 1..Len(chars) : chars[i] \in {"SUR", "SURLO"}

\* The manifest is the object with the given members.
ManifestIs(members) == TheManifest = RegularFile(ObjectText(members))

NameMember == MemberText(Q(<<"n", "a", "m", "e">>), Q(<<"x">>))

\* The manifests whose end is cut off and the manifests with text after the
\* object.
CutOrExtended ==
    UNION {{SubSeq(d, 1, n) : n \in 0..(Len(d) - 2)} : d \in CoreObjectTexts}
      \cup {d \o <<"{">> : d \in CoreObjectTexts}

FailedWithoutOutput == status = 1 /\ stdout = <<>>

(***************************************************************************)
(* C1 as stated: for every manifest that is a mapping whose version is a   *)
(* string v, the invocation writes v and a newline and exits with zero.    *)
(***************************************************************************)
C1_EveryStringIsPrinted ==
    Ended =>
        LET m == Reading
        IN  (m.found /\ m.version.t = "str")
                => /\ status = 0
                   /\ stdout = utf8_encode(m.version.s).val \o <<"LF">>

(***************************************************************************)
(* C1: for every manifest that is a mapping whose version is a string v    *)
(* that standard output can encode (v holds no lone surrogate), the        *)
(* invocation writes exactly the bytes of v and one newline, v unchanged,  *)
(* and exits with zero, whatever other fields there are; for a v with a    *)
(* lone surrogate the write raises UnicodeEncodeError, nothing is written  *)
(* and the exit status is 1.                                               *)
(***************************************************************************)
C1_EncodableStringIsPrintedVerbatim ==
    /\ Ended =>
          LET m == Reading
          IN  (m.found /\ m.version.t = "str")
                  => IF HoldsSurrogate(m.version.s)
                     THEN exc = "UnicodeEncodeError" /\ FailedWithoutOutput
                     ELSE /\ status = 0
                          /\ exc = "none"
                          /\ stdout = utf8_encode(m.version.s).val \o <<"LF">>
    /\ (Ended /\ ManifestIs(<<MemberText(VersionKeyText, Q(TextAlpha))>>))
          => status = 0 /\ stdout = TextAlpha \o <<"LF">>
    /\ (Ended /\ ManifestIs(<<NameMember, MemberText(VersionKeyText, Q(Text410))>>))
          => status = 0 /\ stdout = <<"4", ".", "1", ".", "0", "LF">>
    /\ (Ended /\ ManifestIs(<<MemberText(VersionKeyText,
                                Q(<<"SP", "4", ".", "1", "BSL", "n">>))>>))
          => status = 0 /\ stdout = <<"SP", "4", ".", "1", "LF", "LF">>
    /\ (Ended /\ ManifestIs(<<MemberText(VersionKeyText, Q(<<"1", "xC3", "xA9">>))>>))
          => status = 0 /\ stdout = <<"1", "xC3", "xA9", "LF">>

C1_Witness ==
    /\ Ended
    /\ ManifestIs(<<NameMember, MemberText(VersionKeyText, Q(TextAlpha))>>)
    /\ stdout = TextAlpha \o <<"LF">>
    /\ status = 0

(***************************************************************************)
(* C2: when no file exists at the computed path, or the file cannot be     *)
(* read, open() raises an OSError (FileNotFoundError for a missing file),  *)
(* nothing is read, the exit status is not zero and nothing is written to  *)
(* standard output.                                                        *)
(***************************************************************************)
C2_MissingManifestFailsAtOpen ==
    (pc \in {"exit", "done"} /\ ~Readable)
        => /\ BaseClass(exc) = "OSError"
           /\ TheManifest.kind = "absent" => exc = "FileNotFoundError"
           /\ package_file.state = "none"
           /\ loaded = Unset
           /\ Len(opened) = 1
           /\ stdout = <<>>
           /\ Ended => status = 1

C2_Witness ==
    /\ Ended
    /\ TheManifest.kind = "absent"
    /\ exc = "FileNotFoundError"
    /\ status = 1

(***************************************************************************)
(* C3: when the manifest exists and can be read but is not text in the     *)
(* structured format (cut off, with text after the value, otherwise        *)
(* malformed, or not UTF-8), json.load raises a ValueError                 *)
(* (JSONDecodeError, or UnicodeDecodeError for bytes that are no text),    *)
(* the exit status is not zero and nothing is written to standard output.  *)
(***************************************************************************)
C3_MalformedManifestFails ==
    /\ (Ended /\ Readable) =>
          LET m == Reading
          IN  ~m.parses
                  => /\ exc = IF m.decodes THEN "JSONDecodeError"
                              ELSE "UnicodeDecodeError"
                     /\ BaseClass(exc) = "ValueError"
                     /\ FailedWithoutOutput
                     /\ version_string = Unset
    /\ (Ended /\ Readable /\ TheManifest.data \in CutOrExtended)
          => exc = "JSONDecodeError" /\ FailedWithoutOutput

C3_Witness ==
    /\ Ended
    /\ TheManifest = RegularFile(<<"{">> \o MemberText(VersionKeyText, Q(Text410)))
    /\ exc = "JSONDecodeError"
    /\ status = 1

(***************************************************************************)
(* C4 as stated: every manifest that parses and holds no version key fails *)
(* with a KeyError.                                                        *)
(***************************************************************************)
C4_NoVersionKeyIsKeyError ==
    Ended =>
        LET m == Reading
        IN  (m.parses /\ ~m.found) => exc = "KeyError" /\ FailedWithoutOutput

(***************************************************************************)
(* C4: a manifest that parses as a mapping without the version key fails   *)
(* with a KeyError, and a manifest that parses as a value that is no       *)
(* mapping (a list, a string, a number, true, false, null) fails with a    *)
(* TypeError; in both cases the exit status is not zero, nothing is        *)
(* written to standard output and no default value is substituted.         *)
(***************************************************************************)
C4_NoVersionKeyFails ==
    Ended =>
        LET m == Reading
        IN  (m.parses /\ ~m.found)
                => /\ exc = IF m.mapping THEN "KeyError" ELSE "TypeError"
                   /\ FailedWithoutOutput
                   /\ version_string = Unset

C4_Witness ==
    /\ Ended
    /\ ManifestIs(<<NameMember>>)
    /\ exc = "KeyError"
    /\ status = 1

(***************************************************************************)
(* C5: every invocation ends either with the version line written and the  *)
(* exit status zero, or with nothing written and a non-zero exit status;   *)
(* open() is called at most once; the print statement is reached, and      *)
(* output exists, only after open, parse and extraction have succeeded,    *)
(* and what is written is the whole line.                                  *)
(***************************************************************************)
C5_AllOrNothing ==
    /\ Ended => \/ /\ status = 0
                   /\ exc = "none"
                   /\ stdout # <<>>
                \/ /\ status # 0
                   /\ exc # "none"
                   /\ stdout = <<>>
    /\ Len(opened) <= 1
    /\ (pc = "print" \/ stdout # <<>>)
          => /\ Len(opened) = 1
             /\ loaded # Unset
             /\ version_string # Unset
             /\ version_string = Reading.version
    /\ pc = "print" => exc = "none" /\ stdout = <<>>
    /\ stdout # <<>>
          => /\ pc \in {"exit", "done"}
             /\ exc = "none"
             /\ stdout = utf8_encode(str(version_string)).val \o <<"LF">>

C5_Witness ==
    /\ Ended
    /\ status = 1
    /\ exc = "UnicodeEncodeError"
    /\ version_string # Unset
    /\ stdout = <<>>

(***************************************************************************)
(* C6: the invocations against an unchanged manifest all end with the same *)
(* standard output and the same exit status, and the file system a later   *)
(* invocation reads is the one the first invocation read.                  *)
(***************************************************************************)
C6_RepeatedRunsAgree ==
    \A i, j \in 1..Len(runs) :
        /\ runs[i].stdout = runs[j].stdout
        /\ runs[i].status = runs[j].status

C6_Witness ==
    /\ Len(runs) >= 2
    /\ runs[1].status = 0
    /\ runs[2].stdout = <<"4", ".", "1", ".", "0", "LF">>

(***************************************************************************)
(* C7: the file object is open only between open() and the end of the     *)
(* with block; it is closed when the version is printed, and closed in     *)
(* every final state that follows a successful open(), after a parse       *)
(* failure and after a missing key as well as after success.               *)
(***************************************************************************)
C7_HandleReleased ==
    /\ package_file.state = "open" => pc \in {"load", "subscript", "leave"}
    /\ (pc = "print" \/ stdout # <<>>) => package_file.state = "closed"
    /\ (pc \in {"exit", "done"} /\ Readable) => package_file.state = "closed"
    /\ pc \in {"exit", "done"} => package_file.state # "open"

C7_Witness ==
    /\ Ended
    /\ exc = "KeyError"
    /\ package_file.state = "closed"

(***************************************************************************)
(* C8: no step of an invocation changes the file system, and every         *)
(* open() is in read mode.                                                 *)
(***************************************************************************)
C8_ReadOnly ==
    [][/\ fs' = fs
       /\ \A i \in 1..Len(opened') : opened'[i].mode = "r"]_vars

C8_Witness ==
    /\ Ended
    /\ status = 0
    /\ opened = <<[path |-> ManifestPath(__file__), mode |-> "r"]>>
    /\ Readable

(***************************************************************************)
(* C9: the only path an invocation opens is the program's directory,       *)
(* ascended one level, then "superset-frontend", then "package.json"; when *)
(* nothing is there the invocation fails, also when a manifest lies in the *)
(* program's directory, at the project root or elsewhere in the tree.      *)
(***************************************************************************)
C9_SingleFixedPath ==
    /\ pc # "paths" => PACKAGE_JSON = ManifestPath(__file__)
    /\ Len(opened) <= 1
    /\ \A i \in 1..Len(opened) : opened[i].path = ManifestPath(__file__)
    /\ pc \in {"exit", "done"} => Len(opened) = 1
    /\ (Ended /\ TheManifest.kind = "absent")
          => exc = "FileNotFoundError" /\ FailedWithoutOutput

C9_Witness ==
    /\ Ended
    /\ TheManifest.kind = "absent"
    /\ \A p \in DecoyPaths(__file__) : fs[p] = RegularFile(DecoyText)
    /\ __file__ = <<"docker", "get_version.py">>
    /\ FailedWithoutOutput

(***************************************************************************)
(* C10: when the version of a mapping is not a string (a number, true,     *)
(* false, null, a list, a mapping) the invocation raises nothing: it       *)
(* writes one line, the str() of the value, and exits with zero.           *)
(***************************************************************************)
C10_NonStringIsPrinted ==
    /\ Ended =>
          LET m == Reading
          IN  (m.found /\ m.version.t # "str")
                  => /\ status = 0
                     /\ exc = "none"
                     /\ stdout = utf8_encode(repr(m.version)).val \o <<"LF">>
                     /\ {i \in 1..Len(stdout) : stdout[i] = "LF"} = {Len(stdout)}
    /\ (Ended /\ ManifestIs(<<MemberText(VersionKeyText, <<"t", "r", "u", "e">>)>>))
          => stdout = <<"T", "r", "u", "e", "LF">>
    /\ (Ended /\ ManifestIs(<<MemberText(VersionKeyText, <<"n", "u", "l", "l">>)>>))
          => stdout = <<"N", "o", "n", "e", "LF">>
    /\ (Ended /\ ManifestIs(<<MemberText(VersionKeyText, <<"-", "0">>)>>))
          => stdout = <<"0", "LF">>
    /\ (Ended /\ ManifestIs(<<MemberText(VersionKeyText, <<"4", "2">>)>>))
          => stdout = <<"4", "2", "LF">>
    /\ (Ended /\ ManifestIs(<<MemberText(VersionKeyText,
                    <<"{">> \o Q(<<"k">>) \o <<":", "SP", "1", "}">>)>>))
          => stdout = <<"{", "'", "k", "'", ":", "SP", "1", "}", "LF">>
    /\ (Ended /\ ManifestIs(<<MemberText(VersionKeyText,
                    <<"[">> \o Q(<<"a", "BSL", "n", "BSL", "u", "d", "8", "0", "0">>)
                            \o <<",", "SP", "n", "u", "l", "l", "]">>)>>))
          => stdout = <<"[", "'", "a", "BSL", "n", "BSL", "u", "d", "8", "0", "0",
                        "'", ",", "SP", "N", "o", "n", "e", "]", "LF">>

C10_Witness ==
    /\ Ended
    /\ Reading.found
    /\ Reading.version.t = "list"
    /\ Len(Reading.version.items) = 2
    /\ status = 0
    /\ stdout # <<>>

====
